---- MODULE Spec2Model ----
(***************************************************************************)
(* TransactionService (src/src/app/transaction.service.ts) and the calls   *)
(* AppComponent makes into it (src/src/app/app.component.ts).              *)
(*                                                                         *)
(* Text is a sequence of tokens.  The tokens "," "\"" "\n" " " are the     *)
(* characters the code looks at one by one; every other token is a run of  *)
(* characters none of which is one of those four ("T1" is a date text      *)
(* whose getTime() is 1, "10" a number text, ...).  A JavaScript string is *)
(* the concatenation of its tokens, so split, trim and the per-character   *)
(* scan of parseCSVLine work on tokens as they do on characters.           *)
(***************************************************************************)
EXTENDS Integers, Sequences, FiniteSets, TLC

VARIABLES storage, now, last, csv

vars == <<storage, now, last, csv>>

----------------------------------------------------------------------------
(* Bounds *)

MaxLen == 3

MaxClock == 3

MaxCell == 3

----------------------------------------------------------------------------
(* Text helpers *)

Comma == ","

Quote == "\""

Newline == "\n"

Space == " "

RECURSIVE TrimStart(_)
TrimStart(s) ==
  IF s # <<>> /\ Head(s) = Space THEN TrimStart(Tail(s)) ELSE s

RECURSIVE TrimEnd(_)
TrimEnd(s) ==
  IF s # <<>> /\ s[Len(s)] = Space THEN TrimEnd(SubSeq(s, 1, Len(s) - 1)) ELSE s

Trim(s) == TrimEnd(TrimStart(s))

RECURSIVE SplitFrom(_, _, _)
SplitFrom(text, cur, acc) ==
  IF text = <<>> THEN Append(acc, cur)
  ELSE IF Head(text) = Newline THEN SplitFrom(Tail(text), <<>>, Append(acc, cur))
  ELSE SplitFrom(Tail(text), Append(cur, Head(text)), acc)

Split(text) == SplitFrom(text, <<>>, <<>>)

RECURSIVE JoinLines(_)
JoinLines(ls) ==
  IF ls = <<>> THEN <<>>
  ELSE IF Len(ls) = 1 THEN ls[1]
  ELSE ls[1] \o <<Newline>> \o JoinLines(Tail(ls))

NonBlank(ls) == SelectSeq(ls, LAMBDA l : Trim(l) # <<>>)

RECURSIVE ScanFrom(_, _, _, _, _)
ScanFrom(line, i, current, inQuotes, result) ==
  IF i > Len(line) THEN Append(result, Trim(current))
  ELSE IF line[i] = Quote
    THEN ScanFrom(line, i + 1, current, ~inQuotes, result)
  ELSE IF line[i] = Comma /\ ~inQuotes
    THEN ScanFrom(line, i + 1, <<>>, inQuotes, Append(result, Trim(current)))
  ELSE ScanFrom(line, i + 1, Append(current, line[i]), inQuotes, result)

parseCSVLine(line) == ScanFrom(line, 1, <<>>, FALSE, <<>>)

Includes(cell, ch) == \E i \in 1..Len(cell) : cell[i] = ch

RECURSIVE DoubleQuotes(_)
DoubleQuotes(cell) ==
  IF cell = <<>> THEN <<>>
  ELSE IF Head(cell) = Quote THEN <<Quote, Quote>> \o DoubleQuotes(Tail(cell))
  ELSE <<Head(cell)>> \o DoubleQuotes(Tail(cell))

EscapeCell(cell) ==
  IF Includes(cell, Comma) \/ Includes(cell, Quote) \/ Includes(cell, Newline)
    THEN <<Quote>> \o DoubleQuotes(cell) \o <<Quote>>
    ELSE cell

----------------------------------------------------------------------------
(* Values *)

(* new Date(x): an instant in epoch milliseconds, or Invalid Date (NaN) *)
DateOf(ms) == [k |-> "ok", ms |-> ms]

InvalidDate == [k |-> "invalid", ms |-> 0]

(* JavaScript numbers: finite, +/-Infinity (v is the sign), NaN; and the *)
(* values null and undefined an amount field can hold after a read         *)
Num(v) == [k |-> "num", v |-> v]

Infinity(sign) == [k |-> "inf", v |-> sign]

NaN == [k |-> "nan", v |-> 0]

Null == [k |-> "null", v |-> 0]

UndefinedNumber == [k |-> "undefined", v |-> 0]

(* description: a non-empty text, or undefined *)
Undefined == <<"undefined">>

(* id: Date.now().toString() is <<ms>>, `${ms}-${i}` is <<ms, i>>; *)
(* undefined is <<>>                                                        *)
UndefinedId == <<>>

(* A date as JSON.stringify writes it: an ISO string (exact to the         *)
(* millisecond), null for Invalid Date, or no field at all                 *)
Iso(ms) == [k |-> "iso", ms |-> ms]

NullDate == [k |-> "null", ms |-> 0]

MissingDate == [k |-> "missing", ms |-> 0]

(* Errors thrown inside the service *)
SyntaxError == [isError |-> TRUE, message |-> "Unexpected token"]

TypeErrorMap == [isError |-> TRUE, message |-> "transactions.map is not a function"]

TypeErrorNull == [isError |-> TRUE, message |-> "Cannot read properties of null"]

QuotaExceededError == [isError |-> TRUE, message |-> "The quota has been exceeded"]

NoError == [isError |-> FALSE, message |-> ""]

----------------------------------------------------------------------------
(* Field conversions of importFromCSV *)

DateTexts == {"T1", "T3"}

DateMs(tok) == IF tok = "T1" THEN 1 ELSE 3

ParseDate(field) ==
  IF Len(field) = 1 /\ field[1] \in DateTexts THEN DateOf(DateMs(field[1])) ELSE InvalidDate

(* parseFloat reads the longest numeric prefix of the text *)
parseFloat(field) ==
  LET s == TrimStart(field) IN
  IF s = <<>> THEN NaN
  ELSE IF s[1] = "10" THEN Num(10)
  ELSE IF s[1] = "20" THEN Num(20)
  ELSE IF s[1] = "Infinity" THEN Infinity(1)
  ELSE IF s[1] = "-Infinity" THEN Infinity(-1)
  ELSE NaN

isNaN(x) == x.k = "nan"

toLowerCase(field) ==
  [i \in 1..Len(field) |->
     IF field[i] = "SPEND" THEN "spend"
     ELSE IF field[i] = "Savings" THEN "savings"
     ELSE field[i]]

(* description?.trim() || undefined *)
NormDescription(d) == IF Trim(d) = <<>> THEN Undefined ELSE Trim(d)

TypeOf(field) ==
  LET t == Trim(toLowerCase(field)) IN
  IF Len(t) = 1 THEN t[1] ELSE "other"

ImportId(date, i) == <<date.ms, i>>

(* One data line, at index i of dataLines: the transaction it yields, or   *)
(* ok = FALSE when the line is skipped                                      *)
Skipped == [ok |-> FALSE, id |-> UndefinedId, date |-> InvalidDate, amount |-> NaN,
            type |-> "other", description |-> Undefined]

RowOf(dataLine, i) ==
  LET line == Trim(dataLine)
      columns == parseCSVLine(line)
  IN IF line = <<>> \/ Len(columns) < 3 THEN Skipped
     ELSE LET date == ParseDate(columns[1])
              amount == parseFloat(columns[2])
              type == TypeOf(columns[3])
              description == IF Len(columns) >= 4 THEN NormDescription(columns[4])
                             ELSE Undefined
          IN IF date.k = "invalid" \/ isNaN(amount) \/ (type # "savings" /\ type # "spend")
               THEN Skipped
               ELSE [ok |-> TRUE, id |-> ImportId(date, i), date |-> date, amount |-> amount,
                     type |-> type, description |-> description]

Transaction(r) ==
  [id |-> r.id, date |-> r.date, amount |-> r.amount, type |-> r.type,
   description |-> r.description]

(* The text of an import: its non-blank lines, and the rows of its data    *)
(* lines (index i of the code is position i + 1 here)                       *)
ParseText(text) ==
  LET lines == NonBlank(Split(text))
      dataLines == SubSeq(lines, 2, Len(lines))
  IN [nlines |-> Len(lines),
      rows |-> [j \in 1..Len(dataLines) |-> RowOf(dataLines[j], j - 1)]]

----------------------------------------------------------------------------
(* The CSV texts offered to importFromCSV *)

Header == <<"Date", Comma, "Amount", Comma, "Type", Comma, "Description">>

Row1 == <<"T1", Comma, "10", Comma, "savings">>

Row3 == <<"T3", Comma, Space, "20", Comma, "SPEND", Comma, Quote, "a", Comma, "b", Quote>>

RowInfinity == <<"T1", Comma, "Infinity", Comma, "spend">>

RowMinusInfinity == <<"T3", Comma, "-Infinity", Comma, "Savings", Comma, Space>>

RowBadAmount == <<"T1", Comma, "abc", Comma, "savings">>

RowBadDate == <<"yesterday", Comma, "10", Comma, "savings">>

RowBadType == <<"T1", Comma, "10", Comma, "transfer">>

RowShort == <<"T1", Comma, "10">>

RowBlank == <<Space, Space>>

Texts ==
  { <<>>,
    Header,
    JoinLines(<<Header, RowBlank>>),
    JoinLines(<<Header, Row1>>),
    JoinLines(<<Header, Row3>>),
    JoinLines(<<Header, Row3, Row1>>),
    JoinLines(<<Header, RowBlank, Row1, RowBlank>>),
    JoinLines(<<Header, RowInfinity>>),
    JoinLines(<<Header, RowMinusInfinity, Row1>>),
    JoinLines(<<Header, RowBadAmount, RowBadDate, RowBadType, RowShort>>),
    JoinLines(<<Header, RowBadAmount, Row3, RowBadType>>),
    JoinLines(<<Header, RowShort, RowBadDate, Row1>>) }

Parsed == [t \in Texts |-> ParseText(t)]

----------------------------------------------------------------------------
(* localStorage slot 'savings-app-transactions' and its JSON payload *)

Absent == [kind |-> "absent", list |-> <<>>]

Json(list) == [kind |-> "json", list |-> list]

(* Payloads only something other than this service can have written: the   *)
(* empty string, text that is not JSON, JSON that is not an array, the     *)
(* array [null], and the array [1] (read back as an object with no field)  *)
EmptyString == [kind |-> "empty", list |-> <<>>]

Unparseable == [kind |-> "unparseable", list |-> <<>>]

NonArray == [kind |-> "nonarray", list |-> <<>>]

NullElement == [kind |-> "nullelement", list |-> <<>>]

NoFields ==
  [id |-> UndefinedId, date |-> MissingDate, amount |-> UndefinedNumber,
   type |-> "undefined", description |-> Undefined]

NonTransactions == Json(<<NoFields>>)

ForeignPayloads == {EmptyString, Unparseable, NonArray, NullElement, NonTransactions}

StringifyDate(d) == IF d.k = "ok" THEN Iso(d.ms) ELSE NullDate

StringifyNumber(x) == IF x.k \in {"inf", "nan"} THEN Null ELSE x

JSONStringify(list) ==
  [i \in 1..Len(list) |->
     [id |-> list[i].id, date |-> StringifyDate(list[i].date),
      amount |-> StringifyNumber(list[i].amount), type |-> list[i].type,
      description |-> list[i].description]]

(* new Date(t.date) of a parsed element: new Date(null) is the epoch,      *)
(* new Date(undefined) is Invalid Date                                      *)
ReviveDate(d) ==
  IF d.k = "iso" THEN DateOf(d.ms)
  ELSE IF d.k = "null" THEN DateOf(0)
  ELSE InvalidDate

Revive(list) ==
  [i \in 1..Len(list) |->
     [id |-> list[i].id, date |-> ReviveDate(list[i].date), amount |-> list[i].amount,
      type |-> list[i].type, description |-> list[i].description]]

Returned(value) == [threw |-> FALSE, error |-> NoError, value |-> value]

Thrown(error) == [threw |-> TRUE, error |-> error, value |-> <<>>]

getTransactions(stored) ==
  IF stored.kind \in {"absent", "empty"} THEN Returned(<<>>)
  ELSE IF stored.kind = "unparseable" THEN Thrown(SyntaxError)
  ELSE IF stored.kind = "nonarray" THEN Thrown(TypeErrorMap)
  ELSE IF stored.kind = "nullelement" THEN Thrown(TypeErrorNull)
  ELSE Returned(Revive(stored.list))

(* a setItem that has replaced the payload by the time it throws *)
SetItemTorn(stored, list, writeOk) ==
  [threw |-> ~writeOk, error |-> IF writeOk THEN NoError ELSE QuotaExceededError,
   storage |-> Json(JSONStringify(list))]

(* localStorage.setItem: the slot holds the new payload, or the call       *)
(* throws and the slot keeps what it held                                   *)
SetItem(stored, list, writeOk) ==
  IF writeOk THEN [threw |-> FALSE, error |-> NoError, storage |-> Json(JSONStringify(list))]
  ELSE [threw |-> TRUE, error |-> QuotaExceededError, storage |-> stored]

----------------------------------------------------------------------------
(* What a call hands back to its caller *)

NoMessage == <<>>

RetVoid ==
  [kind |-> "void", success |-> FALSE, message |-> NoMessage, count |-> 0,
   value |-> <<>>, error |-> NoError]

RetThrown(error) ==
  [kind |-> "thrown", success |-> FALSE, message |-> NoMessage, count |-> 0,
   value |-> <<>>, error |-> error]

RetList(value) ==
  [kind |-> "list", success |-> FALSE, message |-> NoMessage, count |-> 0,
   value |-> value, error |-> NoError]

RetResult(success, message, count) ==
  [kind |-> "result", success |-> success, message |-> message, count |-> count,
   value |-> <<>>, error |-> NoError]

----------------------------------------------------------------------------
(* addTransaction *)

addTransaction(stored, clock, amount, type, description, date, writeOk) ==
  LET read == getTransactions(stored) IN
  IF read.threw THEN [storage |-> stored, ret |-> RetThrown(read.error)]
  ELSE LET newTransaction ==
             [id |-> <<clock>>, date |-> DateOf(clock), amount |-> amount, type |-> type,
              description |-> NormDescription(description)]
           write == SetItem(stored, Append(read.value, newTransaction), writeOk)
       IN IF write.threw THEN [storage |-> write.storage, ret |-> RetThrown(write.error)]
          ELSE [storage |-> write.storage, ret |-> RetVoid]

----------------------------------------------------------------------------
(* importFromCSV *)

TooFewLines == <<"CSV file must have at least a header and one data row">>

NoValidRows == <<"No valid transactions found in CSV file">>

Imported(n) == <<"Successfully imported ", n, " transaction(s)">>

ErrorImporting == "Error importing CSV: "

(* a handler that lets the failure through *)
Rethrown(error) == RetThrown(error)

Caught(error) ==
  RetResult(FALSE,
            <<ErrorImporting, IF error.isError THEN error.message ELSE "Unknown error">>, 0)

(* a duplicate check that never finds the id *)
HasIdNever(ids, id) == FALSE

HasId(ids, id) == id \in ids

Ids(list) == { list[i].id : i \in 1..Len(list) }

(* the loop over dataLines: the transactions kept, in line order *)
RECURSIVE Accept(_, _, _, _)
Accept(rows, j, ids, transactions) ==
  IF j > Len(rows) THEN transactions
  ELSE IF rows[j].ok /\ ~HasId(ids, rows[j].id)
    THEN Accept(rows, j + 1, ids \cup {rows[j].id}, Append(transactions, Transaction(rows[j])))
  ELSE Accept(rows, j + 1, ids, transactions)

(* a.date.getTime() - b.date.getTime() <= 0 *)
Before(a, b) == a.date.ms <= b.date.ms

RECURSIVE InsertByDate(_, _)
InsertByDate(sorted, t) ==
  IF sorted = <<>> THEN <<t>>
  ELSE IF Before(sorted[Len(sorted)], t) THEN Append(sorted, t)
  ELSE Append(InsertByDate(SubSeq(sorted, 1, Len(sorted) - 1), t), sorted[Len(sorted)])

RECURSIVE SortFrom(_, _, _)
SortFrom(list, j, sorted) ==
  IF j > Len(list) THEN sorted ELSE SortFrom(list, j + 1, InsertByDate(sorted, list[j]))

(* the merged list left in merge order *)
Unsorted(list) == list

(* Array.prototype.sort is stable *)
SortByDate(list) == SortFrom(list, 1, <<>>)

Orderings(list) ==
  { [i \in 1..Len(list) |-> list[p[i]]] :
      p \in { q \in [1..Len(list) -> 1..Len(list)] :
                \A a, b \in 1..Len(list) : a # b => q[a] # q[b] } }

(* With an Invalid Date in the list the comparator returns NaN and the     *)
(* order sort leaves is implementation-defined                              *)
Sorted(list) ==
  IF \A i \in 1..Len(list) : list[i].date.k = "ok" THEN {SortByDate(list)}
  ELSE Orderings(list)

importFromCSV(stored, text, writeOk) ==
  IF Parsed[text].nlines < 2
    THEN {[storage |-> stored, ret |-> RetResult(FALSE, TooFewLines, 0)]}
  ELSE LET read == getTransactions(stored) IN
  IF read.threw THEN {[storage |-> stored, ret |-> Caught(read.error)]}
  ELSE LET existingTransactions == read.value
           transactions == Accept(Parsed[text].rows, 1, Ids(existingTransactions), <<>>)
       IN
  IF Len(transactions) = 0
    THEN {[storage |-> stored, ret |-> RetResult(FALSE, NoValidRows, 0)]}
  ELSE { LET write == SetItem(stored, allTransactions, writeOk) IN
         IF write.threw THEN [storage |-> write.storage, ret |-> Caught(write.error)]
         ELSE [storage |-> write.storage,
               ret |-> RetResult(TRUE, Imported(Len(transactions)), Len(transactions))] :
         allTransactions \in Sorted(existingTransactions \o transactions) }

----------------------------------------------------------------------------
(* State: the storage slot, the clock (Date.now()), the most recent call   *)
(* with what it returned, and the cell of the export / parse round trip    *)

NoArgs == [amount |-> Num(0), type |-> "", description |-> <<>>, date |-> InvalidDate]

(* again: the call before this one was an import of the same text; first: *)
(* what that call returned                                                 *)
Call(op, text, args, writeOk, again, first, ret) ==
  [op |-> op, text |-> text, args |-> args, writeOk |-> writeOk, again |-> again,
   first |-> first, ret |-> ret]

NoCell == [phase |-> "none", description |-> <<>>, field |-> <<>>, columns |-> <<>>]

(* the clock starts between the two dates of the texts *)
StartClock == DateMs("T1") + 1

AddAmounts == {Num(5)}

AddDescriptions == {<<Space, "note">>}

(* the date input of the form: empty, or a day the user picked *)
FormDates == {<<>>, <<"T1">>}

Init ==
  /\ storage = Absent
  /\ now = StartClock
  /\ last = Call("init", <<>>, NoArgs, TRUE, FALSE, RetVoid, RetVoid)
  /\ csv = NoCell

Fits(stored) == Len(stored.list) <= MaxLen

(* addSavings / addSpend: the form's date, or the current time when the    *)
(* field is empty, is handed to addTransaction as a fourth argument         *)
Add(amount, type, description, formDate, writeOk) ==
  LET date == IF formDate # <<>> THEN ParseDate(formDate) ELSE DateOf(now)
      done == addTransaction(storage, now, amount, type, description, date, writeOk)
  IN /\ Fits(done.storage)
     /\ storage' = done.storage
     /\ last' = Call("add", <<>>,
                     [amount |-> amount, type |-> type, description |-> description,
                      date |-> date],
                     writeOk, FALSE, RetVoid, done.ret)
     /\ UNCHANGED <<now, csv>>

AddSavings(amount, description, formDate, writeOk) ==
  Add(amount, "savings", description, formDate, writeOk)

AddSpend(amount, description, formDate, writeOk) ==
  Add(amount, "spend", description, formDate, writeOk)

ImportFromCSV(text, writeOk) ==
  \E done \in importFromCSV(storage, text, writeOk) :
     /\ Fits(done.storage)
     /\ storage' = done.storage
     /\ last' = Call("import", text, NoArgs, writeOk,
                     last.op = "import" /\ last.text = text,
                     IF last.op = "import" /\ last.text = text THEN last.ret ELSE RetVoid,
                     done.ret)
     /\ UNCHANGED <<now, csv>>

ClearTransactions ==
  /\ storage' = Absent
  /\ last' = Call("clear", <<>>, NoArgs, TRUE, FALSE, RetVoid, RetVoid)
  /\ UNCHANGED <<now, csv>>

(* loadTransactions *)
GetTransactions ==
  LET read == getTransactions(storage) IN
  /\ last' = Call("get", <<>>, NoArgs, TRUE, FALSE, RetVoid,
                  IF read.threw THEN RetThrown(read.error) ELSE RetList(read.value))
  /\ UNCHANGED <<storage, now, csv>>

Tick ==
  /\ now < MaxClock
  /\ now' = now + 1
  /\ UNCHANGED <<storage, last, csv>>

(* something other than the service writes the slot *)
ForeignWrite(payload) ==
  /\ storage' = payload
  /\ last' = Call("foreign", <<>>, NoArgs, TRUE, FALSE, RetVoid, RetVoid)
  /\ UNCHANGED <<now, csv>>

Next ==
  \/ \E a \in AddAmounts, d \in AddDescriptions, f \in FormDates : AddSavings(a, d, f, TRUE)
  \/ \E a \in AddAmounts, d \in AddDescriptions, f \in FormDates : AddSpend(a, d, f, TRUE)
  \/ \E t \in Texts : ImportFromCSV(t, TRUE)
  \/ ClearTransactions
  \/ GetTransactions
  \/ Tick

Spec == Init /\ [][Next]_vars

FaultTexts ==
  { Header,
    JoinLines(<<Header, Row1>>),
    JoinLines(<<Header, Row3, Row1>>),
    JoinLines(<<Header, RowInfinity>>),
    JoinLines(<<Header, RowBadAmount, RowBadDate, RowBadType, RowShort>>) }

(* The same calls with storage faults: writes that fail, foreign payloads *)
NextFault ==
  \/ \E w \in BOOLEAN : AddSavings(Num(5), <<"note">>, <<>>, w)
  \/ \E w \in BOOLEAN : AddSpend(Num(5), <<Space>>, <<"T1">>, w)
  \/ \E t \in FaultTexts, w \in BOOLEAN : ImportFromCSV(t, w)
  \/ ClearTransactions
  \/ GetTransactions
  \/ Tick
  \/ \E p \in ForeignPayloads : ForeignWrite(p)

SpecFault == Init /\ [][NextFault]_vars

----------------------------------------------------------------------------
(* Export of one description cell and the parse of the exported field *)

CellChars == {"a", Comma, Quote, Space}

Descriptions ==
  { d \in UNION { [1..n -> CellChars] : n \in 1..MaxCell } : Trim(d) = d }
  \cup { <<"a", Comma, "b", Quote, "c">> }

InitCsv ==
  /\ storage = Absent
  /\ now = StartClock
  /\ last = Call("init", <<>>, NoArgs, TRUE, FALSE, RetVoid, RetVoid)
  /\ csv \in { [phase |-> "stored", description |-> d, field |-> <<>>, columns |-> <<>>] :
                 d \in Descriptions }

ExportCell ==
  /\ csv.phase = "stored"
  /\ csv' = [csv EXCEPT !.phase = "exported", !.field = EscapeCell(csv.description)]
  /\ UNCHANGED <<storage, now, last>>

ParseField ==
  /\ csv.phase = "exported"
  /\ csv' = [csv EXCEPT !.phase = "parsed", !.columns = parseCSVLine(csv.field)]
  /\ UNCHANGED <<storage, now, last>>

NextCsv == ExportCell \/ ParseField

SpecCsv == InitCsv /\ [][NextCsv]_vars

----------------------------------------------------------------------------
(* Properties *)

Stored == storage.list

Records == getTransactions(storage).value

(* a step of importFromCSV (Tick is the only step that moves the clock) *)
ImportStep == last'.op = "import" /\ now' = now

AddStep == last'.op = "add" /\ now' = now

ValidRows(text) == { j \in 1..Len(Parsed[text].rows) : Parsed[text].rows[j].ok }

RowIds(text) == { Parsed[text].rows[j].id : j \in ValidRows(text) }

(* rows that are valid in the sense of the data model: accepted by the     *)
(* row checks and with a finite amount                                      *)
FiniteRows(text) == { j \in ValidRows(text) : Parsed[text].rows[j].amount.k = "num" }

FiniteStore == \A i \in 1..Len(Stored) : Stored[i].amount.k = "num"

(* C1: no two records of the stored collection have the same id *)
C1_UniqueIds ==
  \A i, j \in 1..Len(Stored) : i # j => Stored[i].id # Stored[j].id

(* C2: every record in storage has a finite amount *)
C2_FiniteAmounts == FiniteStore

(* C3: an add stores, at the end of the list and with every earlier record *)
(* kept in place, a record dated with the date the caller supplied, and    *)
(* returns that record                                                      *)
C3_AppendSuppliedDate ==
  [][AddStep =>
       LET was == getTransactions(storage).value
           is == getTransactions(storage').value
       IN /\ Len(is) = Len(was) + 1
          /\ SubSeq(is, 1, Len(was)) = was
          /\ is[Len(is)].date = last'.args.date
          /\ last'.ret.kind = "record"
          /\ last'.ret.value = <<is[Len(is)]>>]_vars

(* C4 as stated: of two imports of the same text in a row, a text with N   *)
(* >= 1 valid rows, the first returned success with count N and the second *)
(* returns failure with count 0 (looked at where every amount, in the text *)
(* and in the store, is finite)                                             *)
C4_SameTextTwice ==
  (last.op = "import" /\ last.again /\ ValidRows(last.text) # {}
     /\ FiniteRows(last.text) = ValidRows(last.text) /\ FiniteStore) =>
     /\ last.first.success
     /\ last.first.count = Cardinality(ValidRows(last.text))
     /\ ~last.ret.success
     /\ last.ret.count = 0

(* C4 amended: an import of a text with N >= 1 rows that pass the row      *)
(* checks returns success with count N when none of the ids of those rows  *)
(* is stored yet; and an import of the text whose import just before       *)
(* succeeded returns failure with count 0 and leaves the storage as it was *)
C4_FirstThenDuplicate ==
  [][ImportStep =>
       /\ (ValidRows(last'.text) # {} /\ RowIds(last'.text) \cap Ids(Records) = {}) =>
             /\ last'.ret.success
             /\ last'.ret.count = Cardinality(ValidRows(last'.text))
       /\ (last'.again /\ last'.first.success) =>
             /\ ~last'.ret.success
             /\ last'.ret.count = 0
             /\ storage' = storage]_vars

C4_Witness ==
  /\ last.op = "import"
  /\ last.again
  /\ last.first.success
  /\ last.first.count = 2
  /\ last.ret.message = NoValidRows
  /\ Len(Stored) = 3

(* C5: after an import that returned success the whole stored collection   *)
(* is in ascending date order                                               *)
C5_SortedAfterImport ==
  (last.op = "import" /\ last.ret.success) =>
     \A i, j \in 1..Len(Records) : i < j => Records[i].date.ms <= Records[j].date.ms

(* an imported record ahead of a record that was added before the import *)
C5_Witness ==
  /\ last.op = "import"
  /\ last.ret.success
  /\ Len(Records) >= 2
  /\ Len(Records[1].id) = 2
  /\ \E j \in 2..Len(Records) :
        Len(Records[j].id) = 1 /\ Records[1].date.ms < Records[j].date.ms

(* C6: importFromCSV returns a result, never throws; when the stored       *)
(* payload cannot be read, or the write of the merged list fails, the      *)
(* result is failure with count 0 and a message holding the description of *)
(* the failure                                                              *)
C6_NeverThrows ==
  [][ImportStep =>
       LET read == getTransactions(storage)
           lines == Parsed[last'.text].nlines
       IN /\ last'.ret.kind = "result"
          /\ (lines >= 2 /\ read.threw) =>
                last'.ret = RetResult(FALSE, <<ErrorImporting, read.error.message>>, 0)
          /\ (lines >= 2 /\ ~read.threw /\ ~last'.writeOk
                /\ RowIds(last'.text) \ Ids(read.value) # {}) =>
                last'.ret =
                  RetResult(FALSE, <<ErrorImporting, QuotaExceededError.message>>, 0)
          /\ ~last'.writeOk => ~last'.ret.success]_vars

C6_Witness ==
  /\ last.op = "import"
  /\ storage = Unparseable
  /\ last.ret.message = <<ErrorImporting, SyntaxError.message>>

(* C7: a read of an absent slot returns the empty list, and a read of a    *)
(* payload that is not a serialized transaction list fails                  *)
C7_ReadOrFail ==
  last.op = "get" =>
     /\ storage = Absent => last.ret = RetList(<<>>)
     /\ storage \in ForeignPayloads => last.ret.kind = "thrown"

(* C8: a description with a comma and a double quote is exported as a      *)
(* quoted field with the quote doubled, and the parse of that field gives  *)
(* the description back                                                     *)
C8_QuoteRoundTrip ==
  (csv.phase = "parsed" /\ Includes(csv.description, Comma)
      /\ Includes(csv.description, Quote)) =>
     /\ csv.field = <<Quote>> \o DoubleQuotes(csv.description) \o <<Quote>>
     /\ Len(csv.columns) = 1
     /\ NormDescription(csv.columns[1]) = csv.description

(* C9: an import of a text with K >= 1 valid rows whose ids are not yet    *)
(* stored returns success with count K, the stored collection grows by K   *)
(* and keeps every record it held                                           *)
C9_CountsValidRows ==
  [][ImportStep =>
       LET fresh == { j \in FiniteRows(last'.text) :
                        Parsed[last'.text].rows[j].id \notin Ids(Records) }
       IN fresh # {} =>
            /\ last'.ret.success
            /\ last'.ret.count = Cardinality(fresh)
            /\ Len(storage'.list) = Len(storage.list) + Cardinality(fresh)
            /\ \A i \in 1..Len(storage.list) :
                  \E k \in 1..Len(storage'.list) : storage'.list[k] = storage.list[i]]_vars

(* C10: an import that returns failure returns count 0 and leaves the      *)
(* storage slot as it was                                                   *)
C10_FailureKeepsStorage ==
  [][(ImportStep /\ ~last'.ret.success) =>
       (last'.ret.count = 0 /\ storage' = storage)]_vars

(* a failed write of the merged list over a collection that is kept *)
C10_Witness ==
  /\ last.op = "import"
  /\ ~last.writeOk
  /\ last.ret.message = <<ErrorImporting, QuotaExceededError.message>>
  /\ Len(Stored) = 2

====
